---------------------------- MODULE Spec2Model ----------------------------
(***************************************************************************)
(* A model of src/rpc_span.h: the SnowFlake identifier generator and the   *)
(* RPCSpanLoggerDefault sampler.                                            *)
(*                                                                         *)
(* Identifiers are 64 bits wide in the source.  The model keeps the layout *)
(* [timestamp][group][machine][sequence] and the unsigned arithmetic       *)
(* (every shift is taken modulo 2^TOTAL_BITS) but scales TOTAL_BITS down,  *)
(* and constructs the generator with field widths that add up to the       *)
(* scaled width, exactly as SnowFlake(timestamp_bits, group_bits,          *)
(* machine_bits) allows.                                                   *)
(***************************************************************************)
EXTENDS Integers, Sequences, FiniteSets

\* ------------------------------------------------------------------ bounds
\* Largest clock value (milliseconds) a call may read.
MaxTime == 4
\* Largest number of consecutive calls that read the same millisecond.
MaxCalls == 6
\* Largest value the sequence counter is followed to.
MaxSequence == 8
\* Number of threads, the calls each makes, and the last clock value they see.
NThreads == 2
MaxThreadCalls == 2
MaxNow == 2
\* Largest span_limit set, largest clock value filter reads, and the value
\* span_count is followed to.
MaxLimit == 2
MaxSpanTime == 2
MaxCount == 4
\* spans constructed in one run of the logger
MaxSpans == 2
\* calls of filter each concurrent thread makes
MaxFilterCalls == 2

\* ------------------------------------------------------- program constants
\* static constexpr uint64_t TOTAL_BITS = 64L, scaled.
TOTAL_BITS == 7

\* The (timestamp_bits, group_bits, machine_bits) triples the generator is
\* constructed with.
Configs == { <<2, 1, 2>>, <<3, 1, 2>> }

VARIABLES
    \* SnowFlake: configuration, fixed by the constructor
    timestamp_bits, group_bits, machine_bits,
    \* SnowFlake: std::atomic<uint64_t> last_timestamp, sequence
    last_timestamp, sequence,
    \* the last completed get_uid call: its arguments, the timestamp it read
    \* (if it got that far), what it returned and the state it started from
    call,
    \* the history of the calls made so far, kept for as long as every call
    \* passed ids below their own field's maximum and no clock sample was less
    \* than the one before (Untracked afterwards):
    \*   strict   every clock sample was strictly greater than the one before
    \*   infield  every clock sample was below 2^timestamp_bits
    \*   fixed    every call passed the same ids
    \*   max      the largest identifier returned before the last call, or -1
    hist,
    last_sample,   \* the clock value read by the latest call that read it, or -1
    run_calls,     \* calls, so far, of the current run of calls reading one millisecond
    run_ok,        \* how many of them returned an identifier
    run_fresh      \* the run's first call read a millisecond later than last_timestamp

gen_vars == << timestamp_bits, group_bits, machine_bits, last_timestamp, sequence,
               call, hist, last_sample, run_calls, run_ok, run_fresh >>

VARIABLES
    \* threads calling get_uid on one SnowFlake concurrently
    now,           \* the clock (CLOCK_MONOTONIC in milliseconds)
    ids,           \* << group_id, machine_id >>, the ids every thread passes
    pc,            \* each thread's position in get_uid
    t_timestamp,   \* each thread's local `timestamp`
    t_seq_id,      \* each thread's local `seq_id`
    calls,         \* how many calls each thread has started
    issued,        \* the identifiers returned so far
    dup,           \* some call returned an identifier another call had returned
    in_capacity    \* every returned identifier carried a seq_id below sequence_max

thread_vars == << now, ids, pc, t_timestamp, t_seq_id, calls, issued, dup, in_capacity >>

VARIABLES
    \* RPCSpanLoggerDefault: unsigned int span_limit, uint64_t span_timestamp,
    \* std::atomic<unsigned int> span_count
    span_limit, span_timestamp, span_count,
    \* the filter call just completed, if the last operation was one: whether
    \* the span carried a trace id, the timestamp read, what was returned and the
    \* state the call started from
    filt,
    \* the filter calls made so far, kept for as long as every span had an unset
    \* trace id, every call read the same millisecond and span_limit was not
    \* changed (Untracked afterwards):
    \*   submitted, accepted, rejected   how many spans were
    \*   prefix   no span was accepted after one was rejected
    burst

sampler_vars == << span_limit, span_timestamp, span_count, filt, burst >>

VARIABLES
    \* the RPCSpan being instrumented: its fields while it is allocated
    \* (state "live"), NoSpan before construction, Released after delete
    span,
    \* the SubTask create_log_task returned and how far it has run
    task,
    \* what filter returned for this span ("none" before create_log_task)
    accepted,
    \* the tokens of the line written to stderr by the last dispatch
    record,
    \* for this span: how many records were written, how many times the span
    \* was deleted, and the events of its task in the order they happened
    records, releases, events,
    \* a released span was read; a member of a destroyed task was used
    use_after_release, use_after_destroy,
    \* no setter was called since the constructor
    fresh,
    \* spans constructed so far
    spans

log_vars == << span, task, accepted, record, records, releases, events,
               use_after_release, use_after_destroy, fresh, spans >>

VARIABLES
    \* threads inside filter concurrently, every span with an unset trace id:
    \* where each thread is, the timestamp it read from the clock, the value of
    \* span_timestamp it read in the first condition, and its calls so far
    f_pc, f_timestamp, f_seen, f_calls

filter_vars == << f_pc, f_timestamp, f_seen, f_calls >>

\* Everything that is not the generator's, everything that is not the
\* sampler's, everything that is not the logger's and everything the threads
\* inside filter leave alone.
outside_generator == << sampler_vars, log_vars, filter_vars >>
outside_sampler == << gen_vars, thread_vars, log_vars, filter_vars >>
outside_logger == << gen_vars, thread_vars, filter_vars, span_limit, filt, burst >>
outside_filter == << gen_vars, thread_vars, log_vars, span_limit, filt, burst >>

vars == << gen_vars, thread_vars, sampler_vars, log_vars, filter_vars >>

\* ------------------------------------------------------------- arithmetic
Pow2(n) == 2 ^ n

Max(a, b) == IF a >= b THEN a ELSE b

\* x << n on an unsigned TOTAL_BITS-bit integer: the bits shifted out are lost.
ShiftLeft(x, n) == (x * Pow2(n)) % Pow2(TOTAL_BITS)

\* a | b on unsigned integers.
RECURSIVE BitOr(_, _)
BitOr(a, b) ==
    IF a = 0 THEN b
    ELSE IF b = 0 THEN a
    ELSE (IF a % 2 = 1 \/ b % 2 = 1 THEN 1 ELSE 0) + 2 * BitOr(a \div 2, b \div 2)

\* ------------------------------------------------- SnowFlake::SnowFlake
sequence_bits == TOTAL_BITS - timestamp_bits - group_bits - machine_bits

group_id_max == Pow2(group_bits)
machine_id_max == Pow2(machine_bits)
sequence_max == Pow2(sequence_bits)

machine_shift == sequence_bits
group_shift == machine_shift + machine_bits
timestamp_shift == group_shift + group_bits

NoCall == [ made |-> FALSE ]

Untracked == [ tracked |-> FALSE ]

InitGenerator ==
    /\ \E c \in Configs :
          /\ timestamp_bits = c[1]
          /\ group_bits = c[2]
          /\ machine_bits = c[3]
    /\ last_timestamp = 1
    /\ sequence = 0
    /\ call = NoCall
    /\ hist = [ tracked |-> TRUE, strict |-> TRUE, infield |-> TRUE,
                fixed |-> TRUE, max |-> -1 ]
    /\ last_sample = -1
    /\ run_calls = 0
    /\ run_ok = 0
    /\ run_fresh = FALSE


\* ---------------------------------------------------- SnowFlake::get_uid
\* The ids callers pass: ids within each field (for the machine field an even
\* and an odd one), the first id beyond each field, and the ids at and beyond
\* the bound get_uid tests.
GroupIds == { 0, group_id_max - 1, group_id_max, machine_id_max, machine_id_max + 1 }
MachineIds == { 0, 1, machine_id_max, machine_id_max + 1 }
ClockValues == 0 .. MaxTime

\* if (group_id > this->machine_id_max || machine_id > this->machine_id_max)
IdsRejected(group_id, machine_id) ==
    group_id > machine_id_max \/ machine_id > machine_id_max

\* A variant of the regression test that is off by one millisecond.
ClockRegressedOffByOne(timestamp) == timestamp + 1 < last_timestamp

\* if (timestamp < this->last_timestamp) return false;
ClockRegressed(timestamp) == timestamp < last_timestamp

\* A variant of the capacity test that allows for the counter advancing twice
\* per identifier.
SequenceExhaustedLate(incremented) == incremented > 2 * sequence_max + 1

\* if (++this->sequence > this->sequence_max): the test on the incremented value
SequenceExhausted(incremented) == incremented > sequence_max

\* A variant of the packing that shifts the timestamp by group_shift.
PackWrongShift(timestamp, group_id, machine_id, seq_id) ==
    BitOr(BitOr(ShiftLeft(timestamp, group_shift),
                ShiftLeft(group_id, group_shift)),
          BitOr(ShiftLeft(machine_id, machine_shift), seq_id))

\* (timestamp << timestamp_shift) | (group_id << group_shift)
\*     | (machine_id << machine_shift) | seq_id
Pack(timestamp, group_id, machine_id, seq_id) ==
    BitOr(BitOr(ShiftLeft(timestamp, timestamp_shift),
                ShiftLeft(group_id, group_shift)),
          BitOr(ShiftLeft(machine_id, machine_shift), seq_id))

\* What a failing call leaves behind: *uid is not written.
Failed(read, timestamp, seq) ==
    [ read |-> read, timestamp |-> timestamp, ret |-> FALSE, uid |-> -1,
      seq_id |-> -1, last_timestamp |-> last_timestamp, sequence |-> seq ]

\* What a call that returns true leaves behind: seq_id = this->sequence++,
\* this->last_timestamp = timestamp, *uid = the packed fields.
Issued(group_id, machine_id, timestamp, seq) ==
    [ read |-> TRUE, timestamp |-> timestamp, ret |-> TRUE,
      uid |-> Pack(timestamp, group_id, machine_id, seq),
      seq_id |-> seq, last_timestamp |-> timestamp, sequence |-> seq + 1 ]

\* A variant of the same-millisecond branch that tests sequence + 1 and
\* increments only when the test passes.
SameMillisecondTestFirst(group_id, machine_id, timestamp) ==
    IF SequenceExhausted(sequence + 1)
    THEN Failed(TRUE, timestamp, sequence)
    ELSE Issued(group_id, machine_id, timestamp, sequence + 1)

\* The same-millisecond branch: ++this->sequence, then the capacity test.
SameMillisecond(group_id, machine_id, timestamp) ==
    IF SequenceExhausted(sequence + 1)
    THEN Failed(TRUE, timestamp, sequence + 1)
    ELSE Issued(group_id, machine_id, timestamp, sequence + 1)

\* A variant of the else branch that leaves out the reset of the counter.
NewMillisecondNoReset(group_id, machine_id, timestamp) ==
    SameMillisecond(group_id, machine_id, timestamp)

\* The else branch: this->sequence = 0L.
NewMillisecond(group_id, machine_id, timestamp) ==
    Issued(group_id, machine_id, timestamp, 0)

\* One whole call of get_uid, the clock reading `timestamp` when it is read.
get_uid(group_id, machine_id, timestamp) ==
    IF IdsRejected(group_id, machine_id) THEN Failed(FALSE, -1, sequence)
    ELSE IF ClockRegressed(timestamp) THEN Failed(TRUE, timestamp, sequence)
    ELSE IF timestamp = last_timestamp
         THEN SameMillisecond(group_id, machine_id, timestamp)
         ELSE NewMillisecond(group_id, machine_id, timestamp)

\* A caller's sequential call of get_uid, with the bookkeeping of the history.
GetUid ==
    \E group_id \in GroupIds, machine_id \in MachineIds, timestamp \in ClockValues :
      \E r \in { get_uid(group_id, machine_id, timestamp) } :
        LET same == r.read /\ r.timestamp = last_sample
        IN  /\ same => run_calls < MaxCalls
            /\ r.sequence <= MaxSequence
            /\ last_timestamp' = r.last_timestamp
            /\ sequence' = r.sequence
            /\ call' = [ made |-> TRUE, group_id |-> group_id, machine_id |-> machine_id,
                         read |-> r.read, timestamp |-> r.timestamp, ret |-> r.ret,
                         uid |-> r.uid, seq_id |-> r.seq_id,
                         pre_last_timestamp |-> last_timestamp,
                         pre_sequence |-> sequence ]
            /\ hist' =
                 IF /\ hist.tracked
                    /\ group_id < group_id_max /\ machine_id < machine_id_max
                    /\ r.timestamp >= last_sample
                 THEN [ tracked |-> TRUE,
                        strict |-> hist.strict /\ r.timestamp > last_sample,
                        infield |-> hist.infield /\ r.timestamp < Pow2(timestamp_bits),
                        fixed |-> hist.fixed
                                  /\ (call.made => /\ call.group_id = group_id
                                                   /\ call.machine_id = machine_id),
                        max |-> IF call.made /\ call.ret
                                THEN Max(hist.max, call.uid) ELSE hist.max ]
                 ELSE Untracked
            /\ last_sample' = IF r.read THEN r.timestamp ELSE last_sample
            /\ run_calls' = IF ~r.read THEN run_calls
                            ELSE IF same THEN run_calls + 1 ELSE 1
            /\ run_ok' = IF ~r.read THEN run_ok
                         ELSE (IF same THEN run_ok ELSE 0) + (IF r.ret THEN 1 ELSE 0)
            /\ run_fresh' = IF ~r.read \/ same THEN run_fresh
                            ELSE r.timestamp > last_timestamp
            /\ UNCHANGED << timestamp_bits, group_bits, machine_bits >>
            /\ UNCHANGED thread_vars
            /\ UNCHANGED outside_generator

\* ------------------------------------- SnowFlake::get_uid, called by threads
\* Each action is one access to the clock or one atomic operation on
\* last_timestamp or sequence, in the order get_uid makes them.
Threads == 1 .. NThreads

InitThreads(the_ids) ==
    /\ now = 0
    /\ ids = the_ids
    /\ pc = [ t \in Threads |-> "idle" ]
    /\ t_timestamp = [ t \in Threads |-> 0 ]
    /\ t_seq_id = [ t \in Threads |-> 0 ]
    /\ calls = [ t \in Threads |-> 0 ]
    /\ issued = {}
    /\ dup = FALSE
    /\ in_capacity = TRUE

Goto(t, label) == pc' = [ pc EXCEPT ![t] = label ]

\* The clock advances; it never goes back.
Tick ==
    /\ now < MaxNow
    /\ now' = now + 1
    /\ UNCHANGED << ids, pc, t_timestamp, t_seq_id, calls, issued, dup, in_capacity >>
    /\ UNCHANGED gen_vars
    /\ UNCHANGED outside_generator

\* The id test passes (the ids are valid), then clock_gettime.
ReadClock(t) ==
    /\ pc[t] = "idle"
    /\ calls[t] < MaxThreadCalls
    /\ ~IdsRejected(ids[1], ids[2])
    /\ calls' = [ calls EXCEPT ![t] = @ + 1 ]
    /\ t_timestamp' = [ t_timestamp EXCEPT ![t] = now ]
    /\ Goto(t, "regressed")
    /\ UNCHANGED << now, ids, t_seq_id, issued, dup, in_capacity >>
    /\ UNCHANGED gen_vars
    /\ UNCHANGED outside_generator

\* if (timestamp < this->last_timestamp) return false;
TestRegressed(t) ==
    /\ pc[t] = "regressed"
    /\ Goto(t, IF ClockRegressed(t_timestamp[t]) THEN "idle" ELSE "equal")
    /\ UNCHANGED << now, ids, t_timestamp, t_seq_id, calls, issued, dup, in_capacity >>
    /\ UNCHANGED gen_vars
    /\ UNCHANGED outside_generator

\* if (timestamp == this->last_timestamp)
TestEqual(t) ==
    /\ pc[t] = "equal"
    /\ Goto(t, IF t_timestamp[t] = last_timestamp THEN "increment" ELSE "reset")
    /\ UNCHANGED << now, ids, t_timestamp, t_seq_id, calls, issued, dup, in_capacity >>
    /\ UNCHANGED gen_vars
    /\ UNCHANGED outside_generator

\* if (++this->sequence > this->sequence_max) return false;
Increment(t) ==
    /\ pc[t] = "increment"
    /\ sequence < MaxSequence
    /\ sequence' = sequence + 1
    /\ Goto(t, IF SequenceExhausted(sequence + 1) THEN "idle" ELSE "take")
    /\ UNCHANGED << now, ids, t_timestamp, t_seq_id, calls, issued, dup, in_capacity >>
    /\ UNCHANGED << timestamp_bits, group_bits, machine_bits, last_timestamp,
                    call, hist, last_sample, run_calls, run_ok, run_fresh >>
    /\ UNCHANGED outside_generator

\* this->sequence = 0L;
Reset(t) ==
    /\ pc[t] = "reset"
    /\ sequence' = 0
    /\ Goto(t, "take")
    /\ UNCHANGED << now, ids, t_timestamp, t_seq_id, calls, issued, dup, in_capacity >>
    /\ UNCHANGED << timestamp_bits, group_bits, machine_bits, last_timestamp,
                    call, hist, last_sample, run_calls, run_ok, run_fresh >>
    /\ UNCHANGED outside_generator

\* seq_id = this->sequence++;
Take(t) ==
    /\ pc[t] = "take"
    /\ sequence < MaxSequence
    /\ t_seq_id' = [ t_seq_id EXCEPT ![t] = sequence ]
    /\ sequence' = sequence + 1
    /\ Goto(t, "store")
    /\ UNCHANGED << now, ids, t_timestamp, calls, issued, dup, in_capacity >>
    /\ UNCHANGED << timestamp_bits, group_bits, machine_bits, last_timestamp,
                    call, hist, last_sample, run_calls, run_ok, run_fresh >>
    /\ UNCHANGED outside_generator

\* this->last_timestamp = timestamp;
Store(t) ==
    /\ pc[t] = "store"
    /\ last_timestamp' = t_timestamp[t]
    /\ Goto(t, "return")
    /\ UNCHANGED << now, ids, t_timestamp, t_seq_id, calls, issued, dup, in_capacity >>
    /\ UNCHANGED << timestamp_bits, group_bits, machine_bits, sequence,
                    call, hist, last_sample, run_calls, run_ok, run_fresh >>
    /\ UNCHANGED outside_generator

\* *uid = the packed fields; return true;
Return(t) ==
    /\ pc[t] = "return"
    /\ \E uid \in { Pack(t_timestamp[t], ids[1], ids[2], t_seq_id[t]) } :
          /\ issued' = issued \cup { uid }
          /\ dup' = (dup \/ uid \in issued)
    /\ in_capacity' = (in_capacity /\ t_seq_id[t] < sequence_max)
    /\ Goto(t, "idle")
    /\ UNCHANGED << now, ids, t_timestamp, t_seq_id, calls >>
    /\ UNCHANGED gen_vars
    /\ UNCHANGED outside_generator

ThreadStep ==
    \E t \in Threads :
        \/ ReadClock(t)
        \/ TestRegressed(t)
        \/ TestEqual(t)
        \/ Increment(t)
        \/ Reset(t)
        \/ Take(t)
        \/ Store(t)
        \/ Return(t)

\* ------------------------------------------------ RPCSpanLoggerDefault
\* RPCSpanLoggerDefault(), followed by set_span_limit.
InitSampler(limit) ==
    /\ span_limit = limit
    /\ span_timestamp = 0
    /\ span_count = 0
    /\ filt = NoCall
    /\ burst = [ tracked |-> TRUE, submitted |-> 0, accepted |-> 0, rejected |-> 0,
                 prefix |-> TRUE ]

\* A variant of the counted branch's condition with the parenthesis misplaced.
CountedMisplaced(traced, timestamp) ==
    timestamp = span_timestamp /\ (span_count < span_limit \/ traced)

\* (timestamp == this->span_timestamp && this->span_count < this->span_limit)
\*     || span->get_trace_id() != UINT64_UNSET
Counted(traced, timestamp) ==
    (timestamp = span_timestamp /\ span_count < span_limit) \/ traced

\* A variant of filter that tests for a newer millisecond first.
filterRolloverFirst(traced, timestamp) ==
    IF timestamp > span_timestamp
    THEN [ ret |-> TRUE, span_count |-> 0, span_timestamp |-> timestamp ]
    ELSE IF Counted(traced, timestamp)
    THEN [ ret |-> TRUE, span_count |-> span_count + 1,
           span_timestamp |-> span_timestamp ]
    ELSE [ ret |-> FALSE, span_count |-> span_count,
           span_timestamp |-> span_timestamp ]

\* One whole call of filter for a span whose trace id is set (traced) or
\* UINT64_UNSET, the clock reading `timestamp`.
filter(traced, timestamp) ==
    IF Counted(traced, timestamp)
    THEN [ ret |-> TRUE, span_count |-> span_count + 1,
           span_timestamp |-> span_timestamp ]
    ELSE IF timestamp > span_timestamp
    THEN [ ret |-> TRUE, span_count |-> 0, span_timestamp |-> timestamp ]
    ELSE [ ret |-> FALSE, span_count |-> span_count,
           span_timestamp |-> span_timestamp ]

\* A caller's sequential call of filter, with the bookkeeping of the history.
Filter ==
    \E traced \in BOOLEAN, timestamp \in 0 .. MaxSpanTime :
      \E r \in { filter(traced, timestamp) } :
        /\ r.span_count <= MaxCount
        /\ span_count' = r.span_count
        /\ span_timestamp' = r.span_timestamp
        /\ filt' = [ made |-> TRUE, traced |-> traced, timestamp |-> timestamp,
                     ret |-> r.ret, pre_span_count |-> span_count,
                     pre_span_timestamp |-> span_timestamp,
                     pre_span_limit |-> span_limit ]
        /\ burst' =
             IF /\ burst.tracked
                /\ ~traced
                /\ filt.made => filt.timestamp = timestamp
                /\ burst.submitted < span_limit + 5
             THEN [ tracked |-> TRUE,
                    submitted |-> burst.submitted + 1,
                    accepted |-> burst.accepted + (IF r.ret THEN 1 ELSE 0),
                    rejected |-> burst.rejected + (IF r.ret THEN 0 ELSE 1),
                    prefix |-> burst.prefix /\ (r.ret => burst.rejected = 0) ]
             ELSE Untracked
        /\ UNCHANGED span_limit
        /\ UNCHANGED outside_sampler

\* void set_span_limit(unsigned int limit)
SetSpanLimit ==
    \E limit \in 0 .. MaxLimit :
        /\ span_limit' = limit
        /\ burst' = Untracked
        /\ filt' = NoCall
        /\ UNCHANGED << span_timestamp, span_count >>
        /\ UNCHANGED outside_sampler

\* ------------------------------------- threads inside filter concurrently
\* Each action is one access to the clock, to span_timestamp (a plain
\* uint64_t) or to span_count (atomic), in the order filter makes them for a
\* span whose trace id is UINT64_UNSET.
InitFilterThreads ==
    /\ f_pc = [ t \in Threads |-> "idle" ]
    /\ f_timestamp = [ t \in Threads |-> 0 ]
    /\ f_seen = [ t \in Threads |-> 0 ]
    /\ f_calls = [ t \in Threads |-> 0 ]

FilterGoto(t, label) == f_pc' = [ f_pc EXCEPT ![t] = label ]

\* clock_gettime
FilterReadClock(t) ==
    /\ f_pc[t] = "idle"
    /\ f_calls[t] < MaxFilterCalls
    /\ f_calls' = [ f_calls EXCEPT ![t] = @ + 1 ]
    /\ f_timestamp' = [ f_timestamp EXCEPT ![t] = now ]
    /\ FilterGoto(t, "same")
    /\ UNCHANGED << f_seen, span_timestamp, span_count >>
    /\ UNCHANGED outside_filter

\* timestamp == this->span_timestamp
TestSame(t) ==
    /\ f_pc[t] = "same"
    /\ f_seen' = [ f_seen EXCEPT ![t] = span_timestamp ]
    /\ FilterGoto(t, IF f_timestamp[t] = span_timestamp THEN "below" ELSE "newer")
    /\ UNCHANGED << f_timestamp, f_calls, span_timestamp, span_count >>
    /\ UNCHANGED outside_filter

\* && this->span_count < this->span_limit   (|| the trace id is set: it is not)
TestBelow(t) ==
    /\ f_pc[t] = "below"
    /\ FilterGoto(t, IF span_count < span_limit THEN "count" ELSE "newer")
    /\ UNCHANGED << f_timestamp, f_seen, f_calls, span_timestamp, span_count >>
    /\ UNCHANGED outside_filter

\* this->span_count++;   return true;
Count(t) ==
    /\ f_pc[t] = "count"
    /\ span_count < MaxCount
    /\ span_count' = span_count + 1
    /\ FilterGoto(t, "idle")
    /\ UNCHANGED << f_timestamp, f_seen, f_calls, span_timestamp >>
    /\ UNCHANGED outside_filter

\* else if (timestamp > this->span_timestamp), else return false.
\* span_timestamp is not atomic: the build may read it again or reuse the
\* value read in the first condition.
TestNewer(t) ==
    /\ f_pc[t] = "newer"
    /\ \E seen \in { span_timestamp, f_seen[t] } :
          FilterGoto(t, IF f_timestamp[t] > seen THEN "zero" ELSE "idle")
    /\ UNCHANGED << f_timestamp, f_seen, f_calls, span_timestamp, span_count >>
    /\ UNCHANGED outside_filter

\* this->span_count = 0;
Zero(t) ==
    /\ f_pc[t] = "zero"
    /\ span_count' = 0
    /\ FilterGoto(t, "adopt")
    /\ UNCHANGED << f_timestamp, f_seen, f_calls, span_timestamp >>
    /\ UNCHANGED outside_filter

\* this->span_timestamp = timestamp;   return true;
Adopt(t) ==
    /\ f_pc[t] = "adopt"
    /\ span_timestamp' = f_timestamp[t]
    /\ FilterGoto(t, "idle")
    /\ UNCHANGED << f_timestamp, f_seen, f_calls, span_count >>
    /\ UNCHANGED outside_filter

FilterStep ==
    \E t \in Threads :
        \/ FilterReadClock(t)
        \/ TestSame(t)
        \/ TestBelow(t)
        \/ Count(t)
        \/ TestNewer(t)
        \/ Zero(t)
        \/ Adopt(t)

\* -------------------------------------------------------------- RPCSpan
\* The unset sentinels of uint64_t, uint32_t and int fields: values no setter
\* of the model passes.
UINT64_UNSET == -1
UINT_UNSET == -1
INT_UNSET == -1

NoSpan == [ state |-> "absent" ]
Released == [ state |-> "released" ]

\* What an int member without an initialiser may hold after construction.
Indeterminate == { INT_UNSET, 0 }

\* RPCSpan(): the initialiser list names every member but status and error.
RPCSpan(status, error) ==
    [ state |-> "live",
      trace_id |-> UINT64_UNSET,
      span_id |-> UINT_UNSET,
      parent_span_id |-> UINT_UNSET,
      service_name |-> "",
      method_name |-> "",
      data_type |-> INT_UNSET,
      compress_type |-> INT_UNSET,
      start_time |-> UINT64_UNSET,
      end_time |-> UINT64_UNSET,
      cost |-> UINT64_UNSET,
      remote_ip |-> "",
      status |-> status,
      error |-> error ]

\* The setters the caller uses before handing the span over; each one that
\* decides something in filter or dispatch.
Setters == { "trace_id", "parent_span_id", "end_time", "cost" }

\* The sentinel of a settable field's type.
UnsetOf(field) == IF field = "parent_span_id" THEN UINT_UNSET ELSE UINT64_UNSET

\* ------------------------------------------------------ RPCSpanLogTask
NoTask == [ kind |-> "none" ]

\* A variant of dispatch that tests end_time where it should test cost.
dispatchCostByEndTime(s) ==
    << << "trace_id", s.trace_id >>, << "span_id", s.span_id >>,
       << "service", s.service_name >>, << "method", s.method_name >>,
       << "start", s.start_time >> >>
    \o (IF s.parent_span_id # UINT_UNSET
        THEN << << "parent_span_id", s.parent_span_id >> >> ELSE << >>)
    \o (IF s.end_time # UINT64_UNSET
        THEN << << "end_time", s.end_time >> >> ELSE << >>)
    \o (IF s.end_time # UINT64_UNSET
        THEN << << "cost", s.cost >>, << "remote_ip", s.remote_ip >> >>
        ELSE << >>)

\* The key:value tokens dispatch formats into str, in the order of its sprintf
\* calls.
dispatch(s) ==
    << << "trace_id", s.trace_id >>, << "span_id", s.span_id >>,
       << "service", s.service_name >>, << "method", s.method_name >>,
       << "start", s.start_time >> >>
    \o (IF s.parent_span_id # UINT_UNSET
        THEN << << "parent_span_id", s.parent_span_id >> >> ELSE << >>)
    \o (IF s.end_time # UINT64_UNSET
        THEN << << "end_time", s.end_time >> >> ELSE << >>)
    \o (IF s.cost # UINT64_UNSET
        THEN << << "cost", s.cost >>, << "remote_ip", s.remote_ip >> >>
        ELSE << >>)

\* A variant of done that deletes the task before it invokes the callback.
doneDestroysFirst == << "destroy", "callback", "pop" >>

\* The statements of done after series_of(this), in their order: the callback,
\* delete this, series->pop().
done == << "callback", "destroy", "pop" >>

\* new RPCSpanLogTask(span, [span](RPCSpanLogTask *) { delete span; })
creator ==
    [ kind |-> "log", callback |-> TRUE, stage |-> "created", step |-> 1,
      destroyed |-> FALSE ]

\* WFTaskFactory::create_empty_task(): a task that does nothing when it runs.
create_empty_task ==
    [ kind |-> "empty", callback |-> FALSE, stage |-> "created", step |-> 1,
      destroyed |-> FALSE ]

\* A variant of create_log_task that keeps a rejected span.
create_log_taskKeepsRejected(ret) ==
    IF ret
    THEN [ task |-> creator, delete_take |-> FALSE ]
    ELSE [ task |-> create_empty_task, delete_take |-> FALSE ]

\* RPCSpanLoggerDefault::create_log_task after filter returned ret: the task
\* it returns and whether it deletes the span itself.
create_log_task(ret) ==
    IF ret
    THEN [ task |-> creator, delete_take |-> FALSE ]
    ELSE [ task |-> create_empty_task, delete_take |-> TRUE ]

InitLogger ==
    /\ span = NoSpan
    /\ task = NoTask
    /\ accepted = FALSE
    /\ record = << >>
    /\ records = 0
    /\ releases = 0
    /\ events = << >>
    /\ use_after_release = FALSE
    /\ use_after_destroy = FALSE
    /\ fresh = FALSE
    /\ spans = 0

\* The caller constructs the next span once the task of the one before has
\* run to completion.
NewSpan ==
    /\ spans < MaxSpans
    /\ span.state # "live"
    /\ task.kind # "none" => task.stage = "done"
    /\ \E status \in Indeterminate, error \in Indeterminate :
          span' = RPCSpan(status, error)
    /\ task' = NoTask
    /\ accepted' = FALSE
    /\ record' = << >>
    /\ records' = 0
    /\ releases' = 0
    /\ events' = << >>
    /\ fresh' = TRUE
    /\ spans' = spans + 1
    /\ UNCHANGED << use_after_release, use_after_destroy >>
    /\ UNCHANGED << span_timestamp, span_count >>
    /\ UNCHANGED outside_logger

\* set_trace_id, set_parent_span_id, set_end_time, set_cost
SetField ==
    /\ span.state = "live"
    /\ task.kind = "none"
    /\ \E field \in Setters :
          /\ span[field] = UnsetOf(field)
          /\ span' = [ span EXCEPT ![field] = 1 ]
    /\ fresh' = FALSE
    /\ UNCHANGED << task, accepted, record, records, releases, events,
                    use_after_release, use_after_destroy, spans >>
    /\ UNCHANGED << span_timestamp, span_count >>
    /\ UNCHANGED outside_logger

\* SubTask* create_log_task(RPCSpan *take), the call of filter included
CreateLogTask ==
    /\ span.state = "live"
    /\ task.kind = "none"
    /\ \E timestamp \in 0 .. MaxSpanTime :
        \E r \in { filter(span.trace_id # UINT64_UNSET, timestamp) } :
          \E c \in { create_log_task(r.ret) } :
            /\ r.span_count <= MaxCount
            /\ span_count' = r.span_count
            /\ span_timestamp' = r.span_timestamp
            /\ accepted' = r.ret
            /\ task' = c.task
            /\ span' = IF c.delete_take THEN Released ELSE span
            /\ releases' = releases + (IF c.delete_take THEN 1 ELSE 0)
    /\ fresh' = FALSE
    /\ UNCHANGED << record, records, events, use_after_release,
                    use_after_destroy, spans >>
    /\ UNCHANGED outside_logger

\* RPCSpanLogTask::dispatch up to subtask_done(), which calls done
Dispatch ==
    /\ task.kind = "log"
    /\ task.stage = "created"
    /\ record' = IF span.state = "live" THEN dispatch(span) ELSE << >>
    /\ use_after_release' = (use_after_release \/ span.state # "live")
    /\ records' = records + 1
    /\ events' = Append(events, "emit")
    /\ task' = [ task EXCEPT !.stage = "dispatched" ]
    /\ UNCHANGED << span, accepted, releases, use_after_destroy, fresh, spans >>
    /\ UNCHANGED << span_timestamp, span_count >>
    /\ UNCHANGED outside_logger

\* The step of done the task is at.
AtStep(name) ==
    /\ task.kind = "log"
    /\ task.stage = "dispatched"
    /\ done[task.step] = name

\* The task after one more statement of done.
Advance(t) ==
    IF t.step = Len(done)
    THEN [ t EXCEPT !.stage = "done" ]
    ELSE [ t EXCEPT !.step = t.step + 1 ]

\* if (this->callback) this->callback(this);   the callback is delete span
Callback ==
    /\ AtStep("callback")
    /\ use_after_destroy' = (use_after_destroy \/ task.destroyed)
    /\ IF task.callback
       THEN /\ span' = Released
            /\ releases' = releases + 1
            /\ events' = Append(events, "callback")
       ELSE UNCHANGED << span, releases, events >>
    /\ task' = Advance(task)
    /\ UNCHANGED << accepted, record, records, use_after_release, fresh, spans >>
    /\ UNCHANGED << span_timestamp, span_count >>
    /\ UNCHANGED outside_logger

\* delete this;
Destroy ==
    /\ AtStep("destroy")
    /\ task' = Advance([ task EXCEPT !.destroyed = TRUE ])
    /\ events' = Append(events, "destroy")
    /\ UNCHANGED << span, accepted, record, records, releases,
                    use_after_release, use_after_destroy, fresh, spans >>
    /\ UNCHANGED << span_timestamp, span_count >>
    /\ UNCHANGED outside_logger

\* return series->pop();   series was read before the task was deleted
Pop ==
    /\ AtStep("pop")
    /\ task' = Advance(task)
    /\ events' = Append(events, "next")
    /\ UNCHANGED << span, accepted, record, records, releases,
                    use_after_release, use_after_destroy, fresh, spans >>
    /\ UNCHANGED << span_timestamp, span_count >>
    /\ UNCHANGED outside_logger

\* The empty task returned for a rejected span runs: it writes nothing and the
\* series goes on to its next task.
RunEmpty ==
    /\ task.kind = "empty"
    /\ task.stage = "created"
    /\ task' = [ task EXCEPT !.stage = "done" ]
    /\ events' = Append(events, "next")
    /\ UNCHANGED << span, accepted, record, records, releases,
                    use_after_release, use_after_destroy, fresh, spans >>
    /\ UNCHANGED << span_timestamp, span_count >>
    /\ UNCHANGED outside_logger

\* ------------------------------------------------------- specifications
\* One caller at a time.
Init ==
    /\ InitGenerator
    /\ InitThreads(<< 0, 0 >>)
    /\ InitSampler(0)
    /\ InitLogger
    /\ InitFilterThreads

Next == GetUid

Spec == Init /\ [][Next]_vars

\* Threads calling get_uid concurrently with the same valid ids.
InitConcurrent ==
    /\ InitGenerator
    /\ \E group_id \in { 0, group_id_max - 1 }, machine_id \in { 0, 1 } :
          InitThreads(<< group_id, machine_id >>)
    /\ InitSampler(0)
    /\ InitLogger
    /\ InitFilterThreads

NextConcurrent == Tick \/ ThreadStep

SpecThreads == InitConcurrent /\ [][NextConcurrent]_vars

\* One sampler, one caller at a time.
InitSampling ==
    /\ InitGenerator
    /\ InitThreads(<< 0, 0 >>)
    /\ \E limit \in 0 .. MaxLimit : InitSampler(limit)
    /\ InitLogger
    /\ InitFilterThreads

NextSampling == Filter \/ SetSpanLimit

SpecSampler == InitSampling /\ [][NextSampling]_vars

\* One logger and one caller, who hands it one span after the other and runs
\* each returned task to completion.
InitLogging ==
    /\ InitGenerator
    /\ InitThreads(<< 0, 0 >>)
    /\ \E limit \in 0 .. MaxLimit : InitSampler(limit)
    /\ InitLogger
    /\ InitFilterThreads

NextLogging ==
    \/ NewSpan
    \/ SetField
    \/ CreateLogTask
    \/ Dispatch
    \/ Callback
    \/ Destroy
    \/ Pop
    \/ RunEmpty

SpecLog == InitLogging /\ [][NextLogging]_vars

\* Threads calling filter concurrently on one sampler, every span with an
\* unset trace id, span_limit as set before the threads start.
InitFiltering ==
    /\ InitGenerator
    /\ InitThreads(<< 0, 0 >>)
    /\ \E limit \in 0 .. MaxLimit : InitSampler(limit)
    /\ InitLogger
    /\ InitFilterThreads

NextFiltering == Tick \/ FilterStep

SpecFilterThreads == InitFiltering /\ [][NextFiltering]_vars


\* ================================================================ claims
\* What the last call was.
Returned == call.made /\ call.ret

ValidIds == /\ call.group_id < group_id_max
            /\ call.machine_id < machine_id_max

\* The call read the clock and failed in the same-millisecond branch.
ExhaustedCall == /\ call.made /\ call.read /\ ~call.ret
                 /\ call.timestamp = call.pre_last_timestamp

StateUntouched == /\ last_timestamp = call.pre_last_timestamp
                  /\ sequence = call.pre_sequence

\* Decoding an identifier with the generator's own shifts and field widths.
DecodeTimestamp(uid) == uid \div Pow2(timestamp_shift)
DecodeGroup(uid) == (uid \div Pow2(group_shift)) % Pow2(group_bits)
DecodeMachine(uid) == (uid \div Pow2(machine_shift)) % Pow2(machine_bits)
DecodeSequence(uid) == uid % Pow2(sequence_bits)

\* C1 (as stated): with valid ids on every call and a clock strictly greater at
\* every call, a returned identifier is greater than every identifier returned
\* before it.
C1_Original ==
    (Returned /\ hist.tracked /\ hist.strict) => call.uid > hist.max

\* C1 (amended): the same, while every clock sample is below 2^timestamp_bits,
\* i.e. fits the timestamp field.
C1_Amended ==
    (Returned /\ hist.tracked /\ hist.strict /\ hist.infield) => call.uid > hist.max

\* Two identifiers were returned under C1's conditions.
C1_Witness ==
    Returned /\ hist.tracked /\ hist.strict /\ hist.infield /\ hist.max >= 0

\* C2: with the same valid ids on every call and a clock that never goes back
\* (and fits the timestamp field), a returned identifier is greater than every
\* identifier returned before it.
C2_Claim ==
    (Returned /\ hist.tracked /\ hist.fixed /\ hist.infield) => call.uid > hist.max

\* C3: an identifier returned for valid ids and a timestamp that fits its field
\* decodes to the timestamp read, the ids passed and a sequence below capacity.
C3_Claim ==
    (Returned /\ ValidIds /\ call.timestamp < Pow2(timestamp_bits))
        => /\ DecodeTimestamp(call.uid) = call.timestamp
           /\ DecodeGroup(call.uid) = call.group_id
           /\ DecodeMachine(call.uid) = call.machine_id
           /\ DecodeSequence(call.uid) \in 0 .. sequence_max - 1

\* C4: threads calling get_uid concurrently with the same valid ids, under a
\* clock that never goes back, never get the same identifier twice.  Stated for
\* the runs in which every seq_id stayed below sequence_max.
C4_Claim == in_capacity => ~dup

\* C5: a call that reads a timestamp less than last_timestamp fails and leaves
\* last_timestamp and sequence as they were.
C5_RegressionFails ==
    (call.made /\ call.read /\ call.timestamp < call.pre_last_timestamp)
        => (~call.ret /\ StateUntouched)

\* A call read a timestamp less than last_timestamp after identifiers had been
\* issued.
C5_Witness ==
    /\ call.made /\ call.read /\ call.timestamp < call.pre_last_timestamp
    /\ call.pre_sequence > 0 /\ call.pre_last_timestamp > 1

\* C6: a call whose group_id is not below 2^group_bits, or whose machine_id is
\* not below 2^machine_bits, fails and leaves last_timestamp and sequence as
\* they were.
C6_Claim ==
    (call.made /\ ~ValidIds) => (~call.ret /\ StateUntouched)

\* C7 (as stated): a call that fails for sequence exhaustion leaves
\* last_timestamp and sequence as they were.
C7_Original == ExhaustedCall => StateUntouched

\* C7 (amended): a call that fails for sequence exhaustion leaves last_timestamp
\* as it was and sequence greater by exactly one.
C7_Amended ==
    ExhaustedCall => /\ last_timestamp = call.pre_last_timestamp
                     /\ sequence = call.pre_sequence + 1

\* A call failed for sequence exhaustion.
C7_Witness == ExhaustedCall /\ ValidIds

\* C8: of the calls of a run that reads one millisecond, at most sequence_max
\* return an identifier, and every call after the sequence_max-th fails.
C8_Capacity ==
    /\ run_ok <= sequence_max
    /\ (call.made /\ call.read /\ run_calls > sequence_max) => ~call.ret

\* A call beyond the sequence_max-th of its run was made, after the run had
\* issued identifiers.
C8_Witness ==
    call.made /\ call.read /\ ValidIds /\ run_calls > sequence_max /\ run_ok > 1

\* C9: filter returns true for every span whose trace id is not UINT64_UNSET.
C9_TracedAccepted == (filt.made /\ filt.traced) => filt.ret

\* A span with a trace id was filtered when the tracked millisecond was a later
\* one and span_count had reached span_limit.
C9_Witness ==
    /\ filt.made /\ filt.traced
    /\ filt.timestamp < filt.pre_span_timestamp
    /\ filt.pre_span_count >= filt.pre_span_limit

\* C10: of span_limit + 5 spans with unset trace ids submitted to a fresh
\* sampler within one millisecond, exactly span_limit are accepted and 5 are
\* rejected, the accepted ones being the first.
C10_Claim ==
    (burst.tracked /\ burst.submitted = span_limit + 5)
        => /\ burst.accepted = span_limit
           /\ burst.rejected = 5
           /\ burst.prefix

\* C11: a filter call for a span with an unset trace id that reads a
\* millisecond newer than span_timestamp resets span_count to zero, adopts the
\* millisecond and rejects the span.
C11_Claim ==
    (filt.made /\ ~filt.traced /\ filt.timestamp > filt.pre_span_timestamp)
        => /\ span_count = 0
           /\ span_timestamp = filt.timestamp
           /\ ~filt.ret

\* C16: in a run of calls reading one millisecond that began with a call
\* observing a new millisecond, the successful calls get the sequence values
\* 0, 1, 2, ... in order.
C16_Claim ==
    (Returned /\ run_fresh) => call.seq_id = run_ok - 1

\* C19: a filter call for a span with a trace id increments span_count by one
\* and changes nothing else: span_timestamp and span_limit stay, and span_count
\* is not reset even when the millisecond read is newer than span_timestamp.
C19_TracedOnlyCounts ==
    (filt.made /\ filt.traced)
        => /\ span_count = filt.pre_span_count + 1
           /\ span_timestamp = filt.pre_span_timestamp
           /\ span_limit = filt.pre_span_limit

\* A span with a trace id was filtered in a millisecond newer than
\* span_timestamp, and span_count now exceeds span_limit.
C19_Witness ==
    /\ filt.made /\ filt.traced
    /\ filt.timestamp > filt.pre_span_timestamp
    /\ span_count > span_limit

\* C20: a call with valid ids that reads a millisecond greater than
\* last_timestamp succeeds, is given sequence value 0 and sets last_timestamp to
\* that millisecond, whatever calls came before.
C20_Recovers ==
    (call.made /\ ValidIds /\ call.read
               /\ call.timestamp > call.pre_last_timestamp)
        => /\ call.ret
           /\ call.seq_id = 0
           /\ last_timestamp = call.timestamp

\* Such a call was made after calls had failed for sequence exhaustion.
C20_Witness ==
    /\ call.made /\ ValidIds /\ call.read
    /\ call.timestamp > call.pre_last_timestamp
    /\ call.pre_sequence > sequence_max + 1

\* C18: with threads calling get_uid concurrently under a clock that never goes
\* back, no step decreases last_timestamp.
C18_Claim == [][last_timestamp' >= last_timestamp]_vars

\* The task create_log_task returned has run to completion.
Completed == task.kind # "none" /\ task.stage = "done"

\* C13: a span is never released twice, and once its task has run to
\* completion either it was accepted, one record was emitted and it was
\* released once, or it was rejected, no record was emitted and it was released
\* once.
C13_ReleasedOnce ==
    /\ releases <= 1
    /\ Completed =>
          \/ accepted /\ records = 1 /\ releases = 1
          \/ ~accepted /\ records = 0 /\ releases = 1

\* A rejected span whose empty task has run, after an accepted one.
C13_Witness ==
    /\ Completed
    /\ ~accepted
    /\ task.kind = "empty"
    /\ span.state = "released"
    /\ spans > 1

\* The keys of the record's tokens.
Keys == [ i \in 1 .. Len(record) |-> record[i][1] ]

InRecord(key) == \E i \in 1 .. Len(record) : Keys[i] = key

FieldOrder ==
    << "trace_id", "span_id", "service", "method", "start", "parent_span_id",
       "end_time", "cost", "remote_ip" >>

\* The record has just been emitted and the span is still allocated.
JustEmitted == events = << "emit" >> /\ span.state = "live"

\* C14: the record of an accepted span has trace_id, span_id, service, method
\* and start, then parent_span_id iff the parent span id is set, then end_time
\* iff the end time is set, then cost and remote_ip iff the cost is set, in
\* that order and nothing else.
C14_RecordFields ==
    JustEmitted =>
        /\ Len(record) >= 5
        /\ SubSeq(Keys, 1, 5) = << "trace_id", "span_id", "service", "method", "start" >>
        /\ InRecord("parent_span_id") <=> span.parent_span_id # UINT_UNSET
        /\ InRecord("end_time") <=> span.end_time # UINT64_UNSET
        /\ InRecord("cost") <=> span.cost # UINT64_UNSET
        /\ InRecord("remote_ip") <=> span.cost # UINT64_UNSET
        /\ Keys = SelectSeq(FieldOrder, InRecord)

\* A record of a span with a cost but neither a parent span id nor an end time.
C14_Witness ==
    /\ JustEmitted
    /\ span.parent_span_id = UINT_UNSET
    /\ span.end_time = UINT64_UNSET
    /\ span.cost # UINT64_UNSET

\* C15: right after construction every numeric field of the span holds the
\* unset sentinel of its type.
C15_Claim ==
    (span.state = "live" /\ fresh) =>
        /\ span.trace_id = UINT64_UNSET
        /\ span.span_id = UINT_UNSET
        /\ span.parent_span_id = UINT_UNSET
        /\ span.data_type = INT_UNSET
        /\ span.compress_type = INT_UNSET
        /\ span.start_time = UINT64_UNSET
        /\ span.end_time = UINT64_UNSET
        /\ span.cost = UINT64_UNSET
        /\ span.status = INT_UNSET
        /\ span.error = INT_UNSET

EventOrder == << "emit", "callback", "destroy", "next" >>

\* C17: the events of an accepted span's task happen in the order record
\* emitted, continuation invoked, task destroyed, next task, each once; the
\* span is released by the continuation, never read after its release, and no
\* member of the task is used after its destruction.
C17_Order ==
    /\ ~use_after_release
    /\ ~use_after_destroy
    /\ task.kind = "log" =>
          /\ Len(events) <= Len(EventOrder)
          /\ events = SubSeq(EventOrder, 1, Len(events))
          /\ (Len(events) >= 2) <=> (span.state = "released")
          /\ task.stage = "done" => events = EventOrder

\* An accepted span's task has run to completion.
C17_Witness ==
    /\ task.kind = "log"
    /\ task.stage = "done"
    /\ task.destroyed
    /\ releases = 1

\* C12: with threads inside filter concurrently and every trace id unset, the
\* spans counted within the tracked millisecond never exceed span_limit.
C12_Claim == span_count <= span_limit

=============================================================================
